---- MODULE Spec2Model ----
(***************************************************************************)
(* Model of src/encoder.ts: the promise executor of `encoder` (typeCheck,  *)
(* createDir, fs.createWriteStream, the ffmpeg command's configuration,    *)
(* its four listeners and command.run) and the listeners' handling of the  *)
(* external process's start / progress / end / error events.               *)
(***************************************************************************)
EXTENDS Integers, Sequences, FiniteSets, TLC

VARIABLES
    config,        \* the JobConfig the encoder was called with
    pc,            \* position of the promise executor
    promise,       \* the promise returned by encoder
    dirResult,     \* what createDir's try block did
    outputStream,  \* const outputStream (line 50)
    command,       \* const command = ffmpeg() and what was attached to it
    progressBar,   \* const progressBar (cli-progress SingleBar)
    console,       \* the messages written with console.log
    sink,          \* the file behind outputStream: "none", "open" or "closed"
    twin           \* the promise of the same call made with the other verbosity

vars == <<config, pc, promise, dirResult, outputStream, command, progressBar, console,
          sink, twin>>

----------------------------------------------------------------------------
(* JavaScript values.  `type` is what typeof yields; `cls` distinguishes   *)
(* objects by constructor and numbers by finite / NaN / Infinity.  Finite  *)
(* numbers are carried in thousandths (num = 1000 * value) so that         *)
(* toFixed(2) has digits to round away.                                    *)

\* three decimal digits
Milli == 10 * 10 * 10

Undefined == [type |-> "undefined", cls |-> "", num |-> 0, str |-> ""]
Num(n) == [type |-> "number", cls |-> "finite", num |-> n * Milli, str |-> ""]
Frac(m) == [type |-> "number", cls |-> "finite", num |-> m, str |-> ""]
NaN == [type |-> "number", cls |-> "NaN", num |-> 0, str |-> ""]
Infinity == [type |-> "number", cls |-> "Infinity", num |-> 0, str |-> ""]
Str(s) == [type |-> "string", cls |-> "", num |-> 0, str |-> s]
Bool(b) == [type |-> "boolean", cls |-> "", num |-> IF b THEN 1 ELSE 0, str |-> ""]
Obj(c) == [type |-> "object", cls |-> c, num |-> 0, str |-> ""]

\* ToBoolean of the language: what `!x`, `x && y` and `x ? a : b` test.
Truthy(v) ==
    CASE v.type = "undefined" -> FALSE
      [] v.type = "boolean" -> v.num = 1
      [] v.type = "number" -> v.cls = "Infinity" \/ (v.cls = "finite" /\ v.num # 0)
      [] v.type = "string" -> v.str # ""
      [] OTHER -> TRUE

TypeOf(v) == v.type

\* An absent object (fps, backgroundVideo) has present = FALSE and is falsy.
NoFps == [present |-> FALSE, input |-> Undefined, output |-> Undefined]
NoBackgroundVideo ==
    [present |-> FALSE, inSeconds |-> Undefined, outSeconds |-> Undefined,
     videoPath |-> Undefined]

----------------------------------------------------------------------------
(* The configurations the encoder is called with.                          *)

MaxSeconds == 2

FrameStreamValues == {Obj("Readable"), Undefined, Str("frames.mjpeg")}
OutputValues == {Str("out/a.mp4"), Undefined}
RateValues == {Undefined, Num(0), Num(0 - 1), Num(30)}
SecondsValues == {Undefined} \cup {Num(n) : n \in 0..MaxSeconds}
VideoPathValues == {Undefined, Str("bg.mp4")}
SilentValues == {Undefined, Bool(TRUE), Bool(FALSE)}

FpsValues ==
    {NoFps} \cup [present : {TRUE}, input : RateValues, output : RateValues]

BackgroundVideoValues ==
    {NoBackgroundVideo} \cup
    [present : {TRUE}, inSeconds : SecondsValues, outSeconds : SecondsValues,
     videoPath : VideoPathValues]

Configs ==
    [frameStream : FrameStreamValues, output : OutputValues,
     backgroundVideo : BackgroundVideoValues, fps : FpsValues,
     silent : SilentValues]

\* the destructuring without its default
SilentNoDefault(c) == Truthy(c.silent)

\* const { ..., silent = true } = config
Silent(c) == IF c.silent.type = "undefined" THEN TRUE ELSE Truthy(c.silent)

\* The same configuration with the other verbosity.
Flipped(c) == [c EXCEPT !.silent = Bool(~Silent(c))]

----------------------------------------------------------------------------
(* The promise: resolve and reject settle it only while it is pending.     *)

NoStream == [kind |-> "none", path |-> ""]
WriteStream(path) == [kind |-> "WriteStream", path |-> path]
NoResult == [path |-> Undefined, stream |-> NoStream]

Pending == [state |-> "pending", reason |-> "", value |-> NoResult]

\* reject without the settled-once guard
rejectOverwrites(p, message) ==
    [state |-> "rejected", reason |-> message, value |-> NoResult]

reject(p, message) ==
    IF p.state = "pending"
    THEN [state |-> "rejected", reason |-> message, value |-> NoResult]
    ELSE p

\* resolve that never settles
resolveLost(p, result) == p

resolve(p, result) ==
    IF p.state = "pending"
    THEN [state |-> "fulfilled", reason |-> "", value |-> result]
    ELSE p

----------------------------------------------------------------------------
(* typeCheck: four checks, each calling reject and none returning.         *)

FrameStreamError(c) ==
    "frameStream should be in type Readable. You provided " \o TypeOf(c.frameStream)
OutputError(c) == "output should be a string. You provided " \o TypeOf(c.output)
FpsError == "fps should be an object with input and output properties"
BackgroundVideoError == "backgroundVideo property is not correctly set"

IsReadable(v) == v.type = "object" /\ v.cls = "Readable"

FrameStreamOk(c) == IsReadable(c.frameStream)
OutputOk(c) == TypeOf(c.output) = "string"
FpsOk(c) == c.fps.present /\ Truthy(c.fps.input) /\ Truthy(c.fps.output)
\* the check without videoPath
BackgroundVideoOkNoPath(c) ==
    c.backgroundVideo.present =>
        /\ Truthy(c.backgroundVideo.inSeconds)
        /\ Truthy(c.backgroundVideo.outSeconds)

BackgroundVideoOk(c) ==
    c.backgroundVideo.present =>
        /\ Truthy(c.backgroundVideo.inSeconds)
        /\ Truthy(c.backgroundVideo.outSeconds)
        /\ Truthy(c.backgroundVideo.videoPath)

typeCheck(p, c) ==
    LET p1 == IF ~FrameStreamOk(c) THEN reject(p, FrameStreamError(c)) ELSE p
        p2 == IF ~OutputOk(c) THEN reject(p1, OutputError(c)) ELSE p1
        p3 == IF ~FpsOk(c) THEN reject(p2, FpsError) ELSE p2
        p4 == IF ~BackgroundVideoOk(c) THEN reject(p3, BackgroundVideoError) ELSE p3
    IN  p4

----------------------------------------------------------------------------
(* Number formatting: string concatenation, toFixed(2) and parseFloat.     *)

Digit(d) ==
    CASE d = 0 -> "0" [] d = 1 -> "1" [] d = 2 -> "2" [] d = 3 -> "3"
      [] d = 4 -> "4" [] d = 5 -> "5" [] d = 6 -> "6" [] d = 7 -> "7"
      [] d = 8 -> "8" [] OTHER -> "9"

RECURSIVE NatToString(_)
NatToString(n) ==
    IF n < 10 THEN Digit(n) ELSE NatToString(n \div 10) \o Digit(n % 10)

Abs(n) == IF n < 0 THEN 0 - n ELSE n

\* The fraction digits of m thousandths, trailing zeros dropped.
FractionToString(m) ==
    IF m % 10 # 0 THEN Digit(m \div 100) \o Digit((m \div 10) % 10) \o Digit(m % 10)
    ELSE IF m % 100 # 0 THEN Digit(m \div 100) \o Digit((m \div 10) % 10)
    ELSE Digit(m \div 100)

\* String(v), as `"..." + v` applies it.
JsString(v) ==
    CASE v.type = "undefined" -> "undefined"
      [] v.type = "string" -> v.str
      [] v.type = "boolean" -> IF v.num = 1 THEN "true" ELSE "false"
      [] v.type = "number" /\ v.cls = "NaN" -> "NaN"
      [] v.type = "number" /\ v.cls = "Infinity" -> "Infinity"
      [] v.type = "number" /\ v.cls = "finite" ->
            (IF v.num < 0 THEN "-" ELSE "") \o NatToString(Abs(v.num) \div Milli) \o
            (IF Abs(v.num) % Milli = 0 THEN ""
             ELSE "." \o FractionToString(Abs(v.num) % Milli))
      [] OTHER -> "[object Object]"

\* Number.prototype.toFixed(2): the decimal string with two fraction digits,
\* rounded to the nearest hundredth (a tie takes the larger magnitude).  The
\* digits are kept beside the text for parseFloat to read.
toFixed2(v) ==
    IF v.cls = "finite"
    THEN LET hundredths == (Abs(v.num) + 5) \div 10
         IN  [text |-> (IF v.num < 0 THEN "-" ELSE "") \o
                       NatToString(hundredths \div 100) \o "." \o
                       Digit((hundredths \div 10) % 10) \o Digit(hundredths % 10),
              negative |-> v.num < 0,
              whole |-> hundredths \div 100,
              fraction |-> hundredths % 100,
              numeric |-> TRUE]
    ELSE [text |-> JsString(v), negative |-> FALSE, whole |-> 0, fraction |-> 0,
          numeric |-> FALSE]

\* parseFloat of a string toFixed produced.
parseFloat(s) ==
    IF s.numeric
    THEN Frac((IF s.negative THEN 0 - 1 ELSE 1) * (s.whole * Milli + s.fraction * 10))
    ELSE IF s.text = "Infinity" THEN Infinity ELSE NaN

\* lines 119-121
Percent(progress) ==
    IF Truthy(progress.percent) THEN parseFloat(toFixed2(progress.percent)) ELSE Num(0)

----------------------------------------------------------------------------
(* The ffmpeg command (fluent-ffmpeg) and the progress bar (cli-progress). *)

NoFilter == [present |-> FALSE, setpts |-> "", enable |-> "", x |-> "", y |-> "",
             inputs |-> "", outputs |-> "", map |-> ""]

NoCommand ==
    [created |-> FALSE, inputs |-> <<>>, inputFPS |-> Undefined,
     outputOptions |-> <<>>, fps |-> Undefined, complexFilter |-> NoFilter,
     output |-> NoStream, listeners |-> <<>>, ran |-> FALSE]

\* `stopped` records that stop() was called since the last start().
NoProgressBar == [created |-> FALSE, active |-> FALSE, stopped |-> FALSE,
                  total |-> Undefined, value |-> Undefined]

\* lines 59-65
OutputOptions ==
    <<"-preset veryfast", "-crf 24", "-f mp4", "-movflags frag_keyframe+empty_moov",
      "-pix_fmt yuv420p">>

\* the filter with the window's ends exchanged
ComplexFilterSwapped(bg) ==
    [present |-> TRUE,
     setpts |-> "[1:v]setpts=PTS+" \o JsString(bg.inSeconds) \o "/TB[out]",
     enable |-> "between(t," \o JsString(bg.outSeconds) \o "," \o
                JsString(bg.inSeconds) \o ")",
     x |-> "0", y |-> "0", inputs |-> "[0:v][out]", outputs |-> "tmp", map |-> "tmp"]

\* lines 69-89
ComplexFilter(bg) ==
    [present |-> TRUE,
     setpts |-> "[1:v]setpts=PTS+" \o JsString(bg.inSeconds) \o "/TB[out]",
     enable |-> "between(t," \o JsString(bg.inSeconds) \o "," \o
                JsString(bg.outSeconds) \o ")",
     x |-> "0", y |-> "0", inputs |-> "[0:v][out]", outputs |-> "tmp", map |-> "tmp"]

\* command.input(source) accepts a string or a readable stream and throws
\* for anything else.
InputAccepted(v) == v.type = "string" \/ IsReadable(v)

\* fs.createWriteStream(path) throws for a path that is no string.
PathAccepted(v) == v.type = "string"

----------------------------------------------------------------------------
(* The events of the external process and their payloads.                  *)

CommandLine == "ffmpeg -i pipe:0 -y pipe:1"
ErrorMessages == {"ffmpeg exited with code 1", "Output stream closed"}
PercentValues ==
    {Undefined, NaN, Infinity, Frac(0 - 5500), Frac(33336), Num(150)}
ProgressValues == [percent : PercentValues]

DirError == "Cannot create/access output directory"
DirDiagnostic == "Could not create/access output directory"
SpawnDiagnostic(commandLine) == "Spawned Ffmpeg with command: " \o commandLine
EndDiagnostic == "Processing complete..."
ErrorDiagnostic(message) == "An error occured while processing, " \o message

\* createDir rejecting only where it also logs
createDirVerboseOnly(p, silent, failed) ==
    IF failed /\ ~silent THEN reject(p, DirError) ELSE p

\* lines 36-39: what createDir does to the promise
createDir(p, silent, failed) ==
    IF failed THEN reject(p, DirError) ELSE p

\* the result with the stream left out
EndResultNoStream(output, stream) == [path |-> output, stream |-> NoStream]

\* lines 111-114
EndResult(output, stream) == [path |-> output, stream |-> stream]

\* the message wrapped in a prefix
ProcessErrorPrefixed(message) == "Error: " \o message

\* line 128
ProcessError(message) == message

----------------------------------------------------------------------------
Init ==
    /\ config \in Configs
    /\ pc = "typeCheck"
    /\ promise = Pending
    /\ dirResult = "none"
    /\ outputStream = NoStream
    /\ command = NoCommand
    /\ progressBar = NoProgressBar
    /\ console = {}
    /\ sink = "none"
    /\ twin = Pending

\* line 46
TypeCheck ==
    /\ pc = "typeCheck"
    /\ promise' = typeCheck(promise, config)
    /\ twin' = typeCheck(twin, Flipped(config))
    /\ pc' = "createDir"
    /\ UNCHANGED <<config, dirResult, outputStream, command, progressBar, console, sink>>

\* line 48, createDir (lines 30-40).  path.dirname throws for an output that
\* is no string; the directory exists or not, and mkdirSync succeeds or throws.
CreateDir ==
    /\ pc = "createDir"
    /\ \E dirExists \in BOOLEAN, mkdirOk \in BOOLEAN :
          LET result ==
                  IF TypeOf(config.output) # "string" THEN "failed"
                  ELSE IF dirExists THEN "exists"
                  ELSE IF mkdirOk THEN "created"
                  ELSE "failed"
          IN  /\ dirResult' = result
              /\ console' = IF result = "failed" /\ ~Silent(config)
                            THEN console \cup {DirDiagnostic}
                            ELSE console
              /\ promise' = createDir(promise, Silent(config), result = "failed")
              /\ twin' = createDir(twin, ~Silent(config), result = "failed")
    /\ pc' = "createWriteStream"
    /\ UNCHANGED <<config, outputStream, command, progressBar, sink>>

\* line 50.  An exception leaves the executor; the promise constructor
\* rejects with it.
CreateWriteStream ==
    /\ pc = "createWriteStream"
    /\ IF PathAccepted(config.output)
       THEN /\ outputStream' = WriteStream(config.output.str)
            /\ sink' = "open"
            /\ pc' = "input"
            /\ UNCHANGED <<promise, twin>>
       ELSE /\ promise' = reject(promise, "The path argument must be of type string")
            /\ twin' = reject(twin, "The path argument must be of type string")
            /\ pc' = "threw"
            /\ UNCHANGED <<outputStream, sink>>
    /\ UNCHANGED <<config, dirResult, command, progressBar, console>>

\* lines 52-58
AddInputs ==
    /\ pc = "input"
    /\ LET bg == config.backgroundVideo
           c0 == [NoCommand EXCEPT !.created = TRUE]
           bgThrows == bg.present /\ ~InputAccepted(bg.videoPath)
           c1 == IF bg.present /\ ~bgThrows
                 THEN [c0 EXCEPT !.inputs = Append(@, bg.videoPath)]
                 ELSE c0
           frameThrows == ~InputAccepted(config.frameStream)
           c2 == [c1 EXCEPT !.inputs = Append(@, config.frameStream)]
           fpsThrows == ~config.fps.present
           c3 == [c2 EXCEPT !.inputFPS = config.fps.input]
       IN  IF bgThrows
           THEN /\ command' = c0
                /\ promise' = reject(promise, "Invalid input")
                /\ twin' = reject(twin, "Invalid input")
                /\ pc' = "threw"
           ELSE IF frameThrows
           THEN /\ command' = c1
                /\ promise' = reject(promise, "Invalid input")
                /\ twin' = reject(twin, "Invalid input")
                /\ pc' = "threw"
           ELSE IF fpsThrows
           THEN /\ command' = c2
                /\ promise' = reject(promise, "Cannot read properties of undefined")
                /\ twin' = reject(twin, "Cannot read properties of undefined")
                /\ pc' = "threw"
           ELSE /\ command' = c3
                /\ pc' = "output"
                /\ UNCHANGED <<promise, twin>>
    /\ UNCHANGED <<config, dirResult, outputStream, progressBar, console, sink>>

\* lines 59-92 without command.output(outputStream)
AddOutputNoSink ==
    /\ pc = "output"
    /\ command' = [command EXCEPT
                     !.outputOptions = OutputOptions,
                     !.fps = config.fps.output,
                     !.complexFilter = IF config.backgroundVideo.present
                                       THEN ComplexFilter(config.backgroundVideo)
                                       ELSE @]
    /\ pc' = "listen"
    /\ UNCHANGED <<config, promise, dirResult, outputStream, progressBar, console,
                   sink, twin>>

\* lines 59-92
AddOutput ==
    /\ pc = "output"
    /\ command' = [command EXCEPT
                     !.outputOptions = OutputOptions,
                     !.fps = config.fps.output,
                     !.complexFilter = IF config.backgroundVideo.present
                                       THEN ComplexFilter(config.backgroundVideo)
                                       ELSE @,
                     !.output = outputStream]
    /\ pc' = "listen"
    /\ UNCHANGED <<config, promise, dirResult, outputStream, progressBar, console,
                   sink, twin>>

\* lines 94-129
Listen ==
    /\ pc = "listen"
    /\ progressBar' = [progressBar EXCEPT !.created = TRUE]
    /\ command' = [command EXCEPT !.listeners = <<"start", "end", "progress", "error">>]
    /\ pc' = "run"
    /\ UNCHANGED <<config, promise, dirResult, outputStream, console, sink, twin>>

\* line 131
Run ==
    /\ pc = "run"
    /\ command' = [command EXCEPT !.ran = TRUE]
    /\ pc' = "running"
    /\ UNCHANGED <<config, promise, dirResult, outputStream, progressBar, console,
                   sink, twin>>

\* lines 101-104
OnStart ==
    /\ pc = "running"
    /\ IF ~Silent(config)
       THEN /\ console' = console \cup {SpawnDiagnostic(CommandLine)}
            /\ progressBar' = [progressBar EXCEPT
                                 !.active = TRUE, !.stopped = FALSE,
                                 !.total = Num(100), !.value = Num(0)]
       ELSE UNCHANGED <<console, progressBar>>
    /\ UNCHANGED <<config, pc, promise, dirResult, outputStream, command, sink, twin>>

\* lines 106-115
OnEnd ==
    /\ pc = "running"
    /\ IF ~Silent(config)
       THEN /\ progressBar' = [progressBar EXCEPT !.active = FALSE, !.stopped = TRUE]
            /\ console' = console \cup {EndDiagnostic}
       ELSE UNCHANGED <<console, progressBar>>
    /\ promise' = resolve(promise, EndResult(config.output, outputStream))
    /\ twin' = resolve(twin, EndResult(config.output, outputStream))
    /\ UNCHANGED <<config, pc, dirResult, outputStream, command, sink>>

\* a progress listener that resolves the job when the percent reaches 100
OnProgressCompletes ==
    /\ pc = "running"
    /\ \E progress \in ProgressValues :
          /\ IF ~Silent(config)
             THEN progressBar' = [progressBar EXCEPT !.value = Percent(progress)]
             ELSE UNCHANGED progressBar
          /\ IF Percent(progress).cls = "finite" /\ Percent(progress).num >= 100 * Milli
             THEN /\ promise' = resolve(promise, EndResult(config.output, outputStream))
                  /\ twin' = resolve(twin, EndResult(config.output, outputStream))
             ELSE UNCHANGED <<promise, twin>>
    /\ UNCHANGED <<config, pc, dirResult, outputStream, command, console, sink>>

\* lines 117-124
OnProgress ==
    /\ pc = "running"
    /\ \E progress \in ProgressValues :
          IF ~Silent(config)
          THEN progressBar' = [progressBar EXCEPT !.value = Percent(progress)]
          ELSE UNCHANGED progressBar
    /\ UNCHANGED <<config, pc, promise, dirResult, outputStream, command, console,
                   sink, twin>>

\* lines 126-129
OnErrorWith(message) ==
    /\ pc = "running"
    /\ console' = IF ~Silent(config)
                  THEN console \cup {ErrorDiagnostic(message)}
                  ELSE console
    /\ promise' = reject(promise, ProcessError(message))
    /\ twin' = reject(twin, ProcessError(message))
    /\ UNCHANGED <<config, pc, dirResult, outputStream, command, progressBar, sink>>

OnError == \E message \in ErrorMessages : OnErrorWith(message)

\* The write stream finishes and closes its file once the data piped into it
\* is written; no listener of the encoder waits for it (lines 50, 92, 106-115).
SinkClose ==
    /\ pc = "running"
    /\ sink = "open"
    /\ sink' = "closed"
    /\ UNCHANGED <<config, pc, promise, dirResult, outputStream, command, progressBar,
                   console, twin>>

Next ==
    \/ TypeCheck
    \/ CreateDir
    \/ CreateWriteStream
    \/ AddInputs
    \/ AddOutput
    \/ Listen
    \/ Run
    \/ OnStart
    \/ OnEnd
    \/ OnProgress
    \/ OnError
    \/ SinkClose

Spec == Init /\ [][Next]_vars

\* The executor is synchronous code and runs to its end (or to an exception);
\* a process that was started eventually emits end or error.
Executor ==
    TypeCheck \/ CreateDir \/ CreateWriteStream \/ AddInputs \/ AddOutput \/ Listen \/ Run

FairSpec == Spec /\ WF_vars(Executor) /\ WF_vars(OnEnd \/ OnError)

----------------------------------------------------------------------------
(* Properties.                                                             *)

TypeCheckFails(c) ==
    ~(FrameStreamOk(c) /\ OutputOk(c) /\ FpsOk(c) /\ BackgroundVideoOk(c))

ConfigErrors(c) ==
    {FrameStreamError(c), OutputError(c), FpsError, BackgroundVideoError}

Missing(v) == v.type = "undefined" \/ (v.type = "string" /\ v.str = "")

PositiveNumber(v) == v.type = "number" /\ v.cls = "finite" /\ v.num > 0

OverlayIncomplete(c) ==
    /\ c.backgroundVideo.present
    /\ \/ Missing(c.backgroundVideo.videoPath)
       \/ Missing(c.backgroundVideo.inSeconds)
       \/ Missing(c.backgroundVideo.outSeconds)

OverlayComplete(c) ==
    /\ c.backgroundVideo.present
    /\ c.backgroundVideo.videoPath.type = "string"
    /\ c.backgroundVideo.videoPath.str # ""
    /\ c.backgroundVideo.inSeconds.type = "number"
    /\ c.backgroundVideo.inSeconds.cls = "finite"
    /\ c.backgroundVideo.outSeconds.type = "number"
    /\ c.backgroundVideo.outSeconds.cls = "finite"

OtherFieldsValid(c) ==
    /\ IsReadable(c.frameStream)
    /\ c.output.type = "string"
    /\ c.fps.present
    /\ PositiveNumber(c.fps.input)
    /\ PositiveNumber(c.fps.output)

\* A configuration that meets every requirement of the JobConfig.
ValidConfig(c) ==
    /\ OtherFieldsValid(c)
    /\ c.backgroundVideo.present =>
          /\ OverlayComplete(c)
          /\ c.backgroundVideo.inSeconds.num >= 0
          /\ c.backgroundVideo.outSeconds.num > c.backgroundVideo.inSeconds.num

\* C1: the promise is settled at most once: once it is fulfilled or rejected,
\* no later step (a reject call of typeCheck or createDir, an exception of the
\* executor, an end, error, start or progress event) changes its state, its
\* result or its error.
C1_SettledOnce == [][promise.state # "pending" => promise' = promise]_vars

\* C1 witness: typeCheck rejected the job, the process was run all the same
\* and its end and error events were handled, and the promise still carries
\* typeCheck's error.
C1_LateEventsIgnored ==
    /\ pc = "running"
    /\ promise.state = "rejected"
    /\ promise.reason = FpsError
    /\ EndDiagnostic \in console
    /\ \E m \in ErrorMessages : ErrorDiagnostic(m) \in console

\* C2: a configuration that fails typeCheck rejects the job, and on that run
\* the output stream is never opened and the command is never created or run.
C2_InvalidConfigTouchesNothing ==
    (pc # "typeCheck" /\ TypeCheckFails(config)) =>
        /\ promise.state = "rejected"
        /\ outputStream = NoStream
        /\ ~command.created
        /\ ~command.ran

\* C3: for a valid configuration, when the output directory
\* cannot be created the job rejects with the directory error, and the output
\* stream is opened and the command run only after createDir succeeded.
C3_DirBeforeSinkAndRun ==
    ValidConfig(config) =>
        /\ dirResult = "failed" =>
               (promise.state = "rejected" /\ promise.reason = DirError)
        /\ (outputStream # NoStream \/ command.ran) =>
               dirResult \in {"exists", "created"}

\* C4: a configuration whose backgroundVideo is present with videoPath,
\* inSeconds or outSeconds missing is rejected with one of typeCheck's errors,
\* whatever the other fields are, and with the backgroundVideo error when the
\* other fields are valid.
C4_IncompleteOverlayRejected ==
    (pc # "typeCheck" /\ OverlayIncomplete(config)) =>
        /\ promise.state = "rejected"
        /\ promise.reason \in ConfigErrors(config)
        /\ OtherFieldsValid(config) => promise.reason = BackgroundVideoError

\* C4 witness: typeCheck has run on a configuration with a Readable frame
\* stream, a string output and positive rates whose backgroundVideo lacks a
\* field, and rejected it with the backgroundVideo error.
C4_OnlyOverlayWrong ==
    /\ pc = "createDir"
    /\ OverlayIncomplete(config)
    /\ OtherFieldsValid(config)
    /\ promise.state = "rejected"
    /\ promise.reason = BackgroundVideoError

\* C5: a backgroundVideo with inSeconds 0, outSeconds > 0 and a non-empty
\* videoPath is valid: typeCheck does not reject a job carrying it when the
\* other fields are valid.
C5_ZeroInSecondsAccepted ==
    (/\ pc = "createDir"
     /\ OtherFieldsValid(config)
     /\ OverlayComplete(config)
     /\ config.backgroundVideo.inSeconds.num = 0
     /\ config.backgroundVideo.outSeconds.num > 0)
        => promise.state = "pending"

\* C6: a backgroundVideo with all three fields set and outSeconds <= inSeconds
\* is rejected with one of typeCheck's errors, and no job runs the command
\* with outSeconds <= inSeconds.
C6_OverlayOrderEnforced ==
    (/\ pc # "typeCheck"
     /\ OverlayComplete(config)
     /\ config.backgroundVideo.outSeconds.num <= config.backgroundVideo.inSeconds.num)
        => /\ promise.state = "rejected"
           /\ promise.reason \in ConfigErrors(config)
           /\ ~command.ran

\* C7: a configuration whose fps.input or fps.output is not a positive number
\* is rejected with one of typeCheck's errors, and no job runs the command
\* unless both rates are positive numbers.
C7_RatesPositive ==
    (/\ pc # "typeCheck"
     /\ ~(config.fps.present /\ PositiveNumber(config.fps.input)
            /\ PositiveNumber(config.fps.output)))
        => /\ promise.state = "rejected"
           /\ promise.reason \in ConfigErrors(config)
           /\ ~command.ran

\* C8: when the command was run and the promise is pending, the end event
\* fulfils the promise with path equal to the configured output and stream
\* equal to the write stream that was opened on that output.
C8_EndResolvesWithOutput ==
    [][(promise.state = "pending" /\ OnEnd) =>
          /\ command.ran
          /\ promise'.state = "fulfilled"
          /\ promise'.value.path = config.output
          /\ promise'.value.stream = outputStream
          /\ outputStream = WriteStream(config.output.str)]_vars

\* C8 witness: the command was run and the promise is fulfilled with the
\* configured output path and the opened write stream.
C8_Fulfilled ==
    /\ pc = "running"
    /\ promise.state = "fulfilled"
    /\ promise.value.path = config.output
    /\ promise.value.stream = outputStream
    /\ outputStream.kind = "WriteStream"

\* C9: when the command was run and the promise is pending, the error event
\* rejects the promise with an error whose message is the event's message,
\* character for character.
C9_ErrorRejectsVerbatim ==
    [][\A m \in ErrorMessages :
          (promise.state = "pending" /\ OnErrorWith(m)) =>
              /\ command.ran
              /\ promise'.state = "rejected"
              /\ promise'.reason = m]_vars

\* C9 witness: the command was run and the promise is rejected with one of
\* the process's messages.
C9_RejectedByProcess ==
    /\ pc = "running"
    /\ promise.state = "rejected"
    /\ promise.reason \in ErrorMessages

\* C10: every percentage passed to progressBar.update is a finite number in
\* [0,100] (stated for a job whose configuration is valid, whose
\* output directory is there and whose bar the start event has started).
C10_PercentInRange ==
    (/\ ValidConfig(config)
     /\ dirResult # "failed"
     /\ progressBar.active)
        => /\ progressBar.value.type = "number"
           /\ progressBar.value.cls = "finite"
           /\ progressBar.value.num >= 0
           /\ progressBar.value.num <= 100 * Milli

\* C11: the outcome does not depend on verbosity: the promise of a call and
\* the promise of the same call made with the other value of silent, under
\* the same directory result and the same events, are equal at every step
\* (both pending, both fulfilled with the same result, or both rejected with
\* the same message).
C11_SameOutcomeEitherVerbosity == promise = twin

\* C11 witness: the directory could not be created, the verbose call logged
\* it, and both calls are rejected with the directory error.
C11_BothRejectedByDir ==
    /\ dirResult = "failed"
    /\ DirDiagnostic \in console
    /\ promise.state = "rejected"
    /\ promise.reason = DirError
    /\ twin.state = "rejected"
    /\ twin.reason = DirError

\* C12: with silent true or omitted nothing is written to the console and
\* the progress bar is never started, updated or stopped.
C12_QuietModeSilent ==
    (config.silent = Undefined \/ config.silent = Bool(TRUE)) =>
        /\ console = {}
        /\ ~progressBar.active
        /\ ~progressBar.stopped
        /\ progressBar.total = Undefined
        /\ progressBar.value = Undefined

\* C12 witness: silent was omitted, the directory could not be created, the
\* command was run all the same and the job is settled, with an empty console
\* and an untouched bar.
C12_QuietRunSettled ==
    /\ config.silent = Undefined
    /\ dirResult = "failed"
    /\ pc = "running"
    /\ sink = "closed"
    /\ promise.state = "rejected"
    /\ console = {}
    /\ progressBar = [NoProgressBar EXCEPT !.created = TRUE]

\* C13: every job eventually settles, given that a started process eventually
\* emits end or error: the promise is eventually not pending; it is already
\* settled once typeCheck has run on a configuration it rejects or createDir
\* has failed, before any event of the process; and an end or error event
\* never leaves it pending.
C13_EventuallySettles ==
    /\ <>(promise.state # "pending")
    /\ []((pc # "typeCheck" /\ TypeCheckFails(config)) => promise.state # "pending")
    /\ [](dirResult = "failed" => promise.state # "pending")
    /\ [][(OnEnd \/ OnError) => promise'.state # "pending"]_vars

\* C13 witness: a valid configuration whose directory was there; the command
\* was run and an end or error event has settled the promise.
C13_SettledByProcess ==
    /\ ValidConfig(config)
    /\ dirResult \in {"exists", "created"}
    /\ pc = "running"
    /\ promise.state # "pending"

\* In a verbose run the console tells which events have been handled.
StartSeen == SpawnDiagnostic(CommandLine) \in console
TerminalSeen ==
    EndDiagnostic \in console \/ \E m \in ErrorMessages : ErrorDiagnostic(m) \in console

\* C14: events are accepted only in the order start, progress*, end | error
\* (stated for a verbose run of a valid configuration whose directory is
\* there): a progress or end event handled before any start event changes
\* neither the promise nor the progress bar nor the console, and after the
\* first end or error event no progress, end or error event changes them.
C14_EventsOnlyInOrder ==
    [][(/\ ValidConfig(config)
        /\ dirResult # "failed"
        /\ ~Silent(config)
        /\ \/ ~StartSeen /\ (OnProgress \/ OnEnd)
           \/ TerminalSeen /\ (OnProgress \/ OnEnd \/ OnError))
          => UNCHANGED <<promise, progressBar, console>>]_vars

\* The error of the first of typeCheck's checks that a configuration fails.
FirstError(c) ==
    IF ~FrameStreamOk(c) THEN FrameStreamError(c)
    ELSE IF ~OutputOk(c) THEN OutputError(c)
    ELSE IF ~FpsOk(c) THEN FpsError
    ELSE BackgroundVideoError

\* C15: the earliest failing check governs: a configuration that fails
\* typeCheck is rejected with the error of its first failing check and no
\* later stage runs (no createDir, no output stream, no command), and after a
\* typeCheck or createDir failure no later end or error event replaces that
\* error.
C15_EarliestFailureGoverns ==
    /\ (pc # "typeCheck" /\ TypeCheckFails(config)) =>
          /\ promise.state = "rejected"
          /\ promise.reason = FirstError(config)
          /\ dirResult = "none"
          /\ outputStream = NoStream
          /\ ~command.created
    /\ (~TypeCheckFails(config) /\ dirResult = "failed") =>
          /\ promise.state = "rejected"
          /\ promise.reason = DirError

\* C16: on the success path the resources are released before the outcome is
\* delivered (stated for a valid configuration whose directory is there):
\* whenever the promise is fulfilled, the file behind the output stream has
\* been closed.
C16_SinkClosedWhenResolved ==
    (/\ ValidConfig(config)
     /\ dirResult # "failed"
     /\ promise.state = "fulfilled")
        => sink = "closed"

ExpectedInputs(c) ==
    IF c.backgroundVideo.present
    THEN <<c.backgroundVideo.videoPath, c.frameStream>>
    ELSE <<c.frameStream>>

\* C17: the command is run only when fully configured, and nothing is
\* attached afterwards: once command.run was called the inputs are the
\* background video (when present) followed by the frame stream, the input
\* rate is fps.input, the five fixed output options and the output rate
\* fps.output are set, the filter graph is there exactly when backgroundVideo
\* is present, the output is the opened write stream and the start, end,
\* progress and error listeners are registered; and no later step changes the
\* command.
C17_ConfiguredBeforeRun ==
    /\ [](command.ran =>
            /\ command.created
            /\ command.inputs = ExpectedInputs(config)
            /\ command.inputFPS = config.fps.input
            /\ command.outputOptions = OutputOptions
            /\ Len(command.outputOptions) = 5
            /\ command.fps = config.fps.output
            /\ command.complexFilter.present = config.backgroundVideo.present
            /\ command.output = outputStream
            /\ command.output.kind = "WriteStream"
            /\ {command.listeners[i] : i \in 1..Len(command.listeners)}
                   = {"start", "progress", "end", "error"})
    /\ [][command.ran => command' = command]_vars

\* C17 witness: a command with a background video was run, with its two
\* inputs, its filter graph, its output and its listeners.
C17_RanWithOverlay ==
    /\ command.ran
    /\ config.backgroundVideo.present
    /\ Len(command.inputs) = 2
    /\ command.complexFilter.present
    /\ command.output = outputStream
    /\ Len(command.listeners) = 4

\* Whole seconds 0..9 as they appear in a filter expression.
SecondsText(v) == Digit(v.num \div Milli)

\* C18: the filter graph is built exactly when backgroundVideo is set.  Of a
\* command that was run with a backgroundVideo: input 0 is the background
\* video and input 1 the frame stream; with numeric inSeconds and outSeconds
\* the first filter shifts [1:v] by inSeconds ("setpts=PTS+<in>/TB") into
\* [out], and the overlay of [0:v] and [out] is at x = 0, y = 0, enabled for
\* "between(t,<in>,<out>)", its output "tmp" being the graph's only output.
\* Without backgroundVideo the frame stream is the only input and there is no
\* filter graph.
C18_FilterGraph ==
    command.ran =>
        IF config.backgroundVideo.present
        THEN LET bg == config.backgroundVideo
                 f == command.complexFilter
             IN  /\ Len(command.inputs) = 2
                 /\ command.inputs[1] = bg.videoPath
                 /\ command.inputs[2] = config.frameStream
                 /\ f.present
                 /\ f.inputs = "[0:v][out]"
                 /\ f.x = "0"
                 /\ f.y = "0"
                 /\ f.outputs = "tmp"
                 /\ f.map = "tmp"
                 /\ (bg.inSeconds.type = "number" /\ bg.outSeconds.type = "number") =>
                       /\ f.setpts = "[1:v]setpts=PTS+" \o SecondsText(bg.inSeconds)
                                       \o "/TB[out]"
                       /\ f.enable = "between(t," \o SecondsText(bg.inSeconds) \o ","
                                       \o SecondsText(bg.outSeconds) \o ")"
                 /\ (bg.inSeconds = Num(1) /\ bg.outSeconds = Num(2)) =>
                       /\ f.setpts = "[1:v]setpts=PTS+1/TB[out]"
                       /\ f.enable = "between(t,1,2)"
        ELSE /\ command.inputs = <<config.frameStream>>
             /\ command.complexFilter = NoFilter
             /\ ~command.complexFilter.present

\* C18 witness: a command with backgroundVideo {inSeconds: 1, outSeconds: 2}
\* was run, with the frame stream shifted by 1 and the overlay enabled
\* between 1 and 2.
C18_OverlayOneToTwo ==
    /\ command.ran
    /\ ValidConfig(config)
    /\ config.backgroundVideo.present
    /\ config.backgroundVideo.inSeconds = Num(1)
    /\ config.backgroundVideo.outSeconds = Num(2)
    /\ command.complexFilter.setpts = "[1:v]setpts=PTS+1/TB[out]"
    /\ command.complexFilter.enable = "between(t,1,2)"

\* C19: a progress event never affects the outcome: handling it, with any
\* payload and in either verbosity, leaves the promise (pending, fulfilled or
\* rejected, with its result or error) as it was, and changes nothing but the
\* progress bar.
C19_ProgressLeavesOutcome ==
    [][OnProgress =>
          /\ promise' = promise
          /\ twin' = twin
          /\ UNCHANGED <<config, pc, dirResult, outputStream, command, console, sink>>]_vars

\* C19 witness: in a verbose run a progress event of 33.336 percent was
\* handled (the bar shows 33.34) and the promise is still pending.
C19_ProgressHandledStillPending ==
    /\ pc = "running"
    /\ ~Silent(config)
    /\ progressBar.value = Frac(33340)
    /\ promise.state = "pending"

\* C20: in a verbose run the progress bar is bracketed by the job (stated
\* for a valid configuration whose directory is there): only the start event
\* starts the bar, and when the promise of a job whose bar is running is
\* settled, the bar has been stopped by then.
C20_ReporterStoppedWhenSettled ==
    [][/\ (~progressBar.active /\ progressBar'.active) => OnStart
       /\ (/\ ValidConfig(config)
           /\ dirResult # "failed"
           /\ progressBar.active
           /\ promise.state = "pending"
           /\ promise'.state # "pending")
             => ~progressBar'.active]_vars
====
